---- MODULE Spec2Model ----
(***************************************************************************)
(* A model of apify-deep-research: the Research class (tokenizer.js and    *)
(* research.js, src/unnamed/part_000 and part_001) driven by main() of     *)
(* src/src/index.js.                                                       *)
(*                                                                         *)
(* Texts are sequences of tokens: a text is represented by what the        *)
(* tokenizer's encode() produces for it, and the template strings of the   *)
(* code concatenate such sequences.  URLs are sequences of characters, so  *)
(* that toLowerCase() and trim() are computed.                             *)
(***************************************************************************)
EXTENDS Integers, Sequences, FiniteSets, TLC

VARIABLES
    disk,            \* the cache/ directory: a set of files [path, content]
    run,             \* number of the current invocation of main()
    pc,              \* position of main() in its try block
    contextWindow,   \* supportedModels[provider].models[selected_model].contextWindow
    cache,           \* Research.cache: object url -> item, in insertion order
    references,      \* Research.references: Map url -> {title, url}
    usedReferences,  \* Research.usedReferences: the reference ledger
    lastRunId,       \* Research.lastRunId ("null" before the first run)
    activeRun,       \* id of the Apify actor run in flight ("none": none)
    stats,           \* the usage/cost accumulator of index.js
    questions,       \* main: questions
    answers,         \* main: answers
    queries,         \* main: queries
    urls,            \* main: urls
    uncachedUrls,    \* crawlUrls: uncachedUrls
    contents,        \* main: contents
    chapters,        \* main: chapters
    chapterContents, \* main: chapterContents
    previousText,    \* main: previousText
    lastCall,        \* the last chapter-body request sent to the model and its answer
    document,        \* the markdown report written by generateDocument
    today,           \* new Date().toISOString().split("T")[0]: the current day
    aborted,         \* the run the SIGINT handler asked Apify to abort ("none": none)
    searchInput,     \* searchQueries: the `queries` field of the actor's input
    results,         \* searchQueries: results, until the crawl stage begins
    bpc,             \* budgeter harness: position
    bPrompt,         \* budgeter harness: prompt
    bContents,       \* budgeter harness: contents
    bWindow,         \* budgeter harness: contextWindow
    bResult,         \* budgeter harness: returned selection
    apc,             \* assembly harness: position
    firstDocument    \* assembly harness: the text of the first generateDocument call

pipelineVars == <<disk, run, pc, contextWindow, cache, references, usedReferences,
                  lastRunId, activeRun, stats, questions, answers, queries,
                  urls, uncachedUrls, contents, chapters, chapterContents, previousText,
                  lastCall, document, today, aborted, searchInput, results>>

searchVars == <<searchInput, results>>

budgetVars == <<bpc, bPrompt, bContents, bWindow, bResult>>

assemblyVars == <<apc, firstDocument>>

vars == <<pipelineVars, budgetVars, assemblyVars>>

(***************************************************************************)
(* Bounds of the model.                                                    *)
(***************************************************************************)
MaxRuns == 2          \* invocations of main() against the same cache directory
MaxResults == 2       \* organic results returned by one search
MaxChapters == 2      \* chapters of an outline
MaxDocs == 3          \* documents handed to the budgeter harness
MaxPrompt == 3        \* tokens of the prompt handed to the budgeter harness
MaxWindow == 12       \* largest context window of the budgeter harness
SmallWindow == 7      \* context windows of the pipeline's configured model
LargeWindow == 16
MaxLedger == 2        \* ledger entries handed to the assembly harness
MaxDay == 2           \* days on which the assembly harness calls generateDocument

(***************************************************************************)
(* Sequence helpers.                                                       *)
(***************************************************************************)
None == [none |-> TRUE]

Range(s) == {s[i] : i \in 1..Len(s)}

NoDup(s) == \A i, j \in 1..Len(s) : s[i] = s[j] => i = j

IsPrefix(s, t) == Len(s) <= Len(t) /\ \A i \in 1..Len(s) : s[i] = t[i]

\* Array.prototype.indexOf, plus one: 0 when absent.
IndexOf(s, x) ==
    IF \E i \in 1..Len(s) : s[i] = x
    THEN CHOOSE i \in 1..Len(s) : s[i] = x /\ \A j \in 1..(i - 1) : s[j] # x
    ELSE 0

\* Array.prototype.includes
Includes(s, x) == \E i \in 1..Len(s) : s[i] = x

RECURSIVE Flatten(_)
Flatten(ss) == IF ss = <<>> THEN <<>> ELSE Head(ss) \o Flatten(Tail(ss))

\* Array.prototype.join over texts
RECURSIVE Join(_, _)
Join(ss, sep) ==
    IF ss = <<>> THEN <<>>
    ELSE IF Len(ss) = 1 THEN ss[1]
    ELSE ss[1] \o sep \o Join(Tail(ss), sep)

\* All sequences over S of length at most n.
SeqUpTo(S, n) == UNION {[1..k -> S] : k \in 0..n}

(***************************************************************************)
(* Tokens and texts.                                                       *)
(***************************************************************************)
Tok(kind, n, url) == [k |-> kind, v |-> n, u |-> url]

Word(n) == Tok("w", n, <<>>)

\* "\n\n", the separator of join("\n\n") and of `${basePrompt}\n\n${contentsText}`
BlankLine == <<Tok("nn", 0, <<>>)>>

\* "\n"
NewLine == <<Tok("n", 0, <<>>)>>

(***************************************************************************)
(* tokenizer.js                                                            *)
(***************************************************************************)
estimateTokens(text) == IF text = <<>> THEN 0 ELSE Len(text)

\* `<content${i}>\n${text}\n</content${i}>`: the opening and the closing line are
\* one token each.
ContentBlock(i, text) ==
    <<Tok("<content>", i, <<>>)>> \o text \o <<Tok("</content>", i, <<>>)>>

\* a slip: the document's text is estimated without its delimiter
ContentTokensBare(i, text) == estimateTokens(text)

\* contentTokens of the loop: the estimate of the document in its delimiter
ContentTokens(i, text) == estimateTokens(ContentBlock(i, text))

\* a slip: a document that fills the window exactly is refused
FitsStrict(totalTokens, contentTokens, window) == totalTokens + contentTokens < window

\* totalTokens + contentTokens <= contextWindow
Fits(totalTokens, contentTokens, window) == totalTokens + contentTokens <= window

RECURSIVE TruncateLoop(_, _, _, _)
TruncateLoop(rest, truncatedContents, totalTokens, window) ==
    IF rest = <<>> THEN truncatedContents
    ELSE LET content == Head(rest)
             contentTokens == ContentTokens(Len(truncatedContents) + 1, content.text)
         IN  IF Fits(totalTokens, contentTokens, window)
             THEN TruncateLoop(Tail(rest), Append(truncatedContents, content),
                               totalTokens + contentTokens, window)
             ELSE truncatedContents

\* a slip: with no room left, every document is returned instead of none
truncateKeepAll(prompt, docs, window) ==
    IF window - estimateTokens(prompt) <= 0 THEN docs
    ELSE TruncateLoop(docs, <<>>, estimateTokens(prompt), window)

truncateContentsToFit(prompt, docs, window) ==
    LET baseTokens == estimateTokens(prompt)
        availableTokens == window - baseTokens
    IN  IF availableTokens <= 0 THEN <<>>
        ELSE TruncateLoop(docs, <<>>, baseTokens, window)

(***************************************************************************)
(* URLs, the cache directory, the cache object and the references Map.     *)
(***************************************************************************)
UrlA == <<"a">>
UrlAUpper == <<"A", " ">>
UrlB == <<"b">>
UrlPool == {UrlA, UrlAUpper, UrlB}

\* String.prototype.toLowerCase
toLowerCase(s) ==
    [i \in 1..Len(s) |-> IF s[i] = "A" THEN "a" ELSE IF s[i] = "B" THEN "b" ELSE s[i]]

\* String.prototype.trim
RECURSIVE trim(_)
trim(s) ==
    IF s = <<>> THEN s
    ELSE IF Head(s) = " " THEN trim(Tail(s))
    ELSE IF s[Len(s)] = " " THEN trim(SubSeq(s, 1, Len(s) - 1))
    ELSE s

\* createHash("md5").update(..).digest("hex"): a digest, taken to be free of
\* collisions.
Md5(s) == <<"md5">> \o s

\* a slip: the URL is hashed as it is
CachePathRaw(url) == <<"cache/url_">> \o Md5(url) \o <<".json">>

\* path.join("cache", `url_${md5}.json`) of url.toLowerCase().trim()
CachePath(url) == <<"cache/url_">> \o Md5(trim(toLowerCase(url))) \o <<".json">>

\* fs.pathExists
pathExists(files, path) == \E f \in files : f.path = path

\* fs.readJSON
readJSON(files, path) == (CHOOSE f \in files : f.path = path).content

\* fs.writeJSON: creates the file or replaces its content
writeJSON(files, path, item) ==
    {f \in files : f.path # path} \cup {[path |-> path, content |-> item]}

\* obj[key] = val on a plain object: a new key goes last, an old key keeps its place
ObjSet(obj, key, val) ==
    IF \E i \in 1..Len(obj) : obj[i].key = key
    THEN [i \in 1..Len(obj) |->
             IF obj[i].key = key THEN [key |-> key, val |-> val] ELSE obj[i]]
    ELSE Append(obj, [key |-> key, val |-> val])

\* Object.values
ObjValues(obj) == [i \in 1..Len(obj) |-> obj[i].val]

EmptyMap == [u \in {} |-> None]

\* Map.prototype.set
MapSet(m, key, val) == [u \in (DOMAIN m) \cup {key} |-> IF u = key THEN val ELSE m[u]]

\* `x.metadata?.title || fallback`
TitleOr(item, fallback) == IF item.title = <<>> THEN fallback ELSE item.title

\* the page the crawl collaborator finds at a URL: its text and its metadata.title
\* (empty: the page has none)
Page(url) ==
    IF url = UrlA THEN [text |-> <<Word(1)>>, title |-> <<>>]
    ELSE IF url = UrlAUpper THEN [text |-> <<Word(1), Word(2)>>, title |-> <<Word(9)>>]
    ELSE [text |-> <<Word(3)>>, title |-> <<Word(8)>>]

\* an item of the crawler's dataset
Item(url) == [url |-> url, text |-> Page(url).text, title |-> Page(url).title]

(***************************************************************************)
(* The reference ledger of generateChapterContent.                         *)
(***************************************************************************)
\* `[(${refIndex})](${url})`
RenderMarker(refIndex, url) == Tok("ref", refIndex, url)

IsMarker(t) == t.k = "ref"

\* a slip: the URL is pushed whether or not the ledger has it
PushAlways(used, url) == Append(used, url)

\* if (!usedReferences.includes(url)) usedReferences.push(url)
PushIfNew(used, url) == IF ~Includes(used, url) THEN Append(used, url) ELSE used

\* a slip: the ledger's length is taken for the index
RefIndexLast(used, url) == Len(used)

\* usedReferences.indexOf(url) + 1
RefIndex(used, url) == IndexOf(used, url)

\* a slip: the marker carries the call-local reference number
MarkerLocal(used, url, refNum) == RenderMarker(refNum, url)

\* const refIndex = ..; return `[(${refIndex})](${url})`
MarkerFor(used, url, refNum) == RenderMarker(RefIndex(used, url), url)

\* a slip: a reference number out of range is taken for the nearest document
RECURSIVE ProcessRefsClamp(_, _, _)
ProcessRefsClamp(refNums, truncatedContents, used) ==
    IF refNums = <<>> THEN [used |-> used, refs |-> <<>>]
    ELSE IF truncatedContents = <<>>
         THEN ProcessRefsClamp(Tail(refNums), truncatedContents, used)
         ELSE LET n == Len(truncatedContents)
                  i == IF Head(refNums) < 1 THEN 1
                       ELSE IF Head(refNums) > n THEN n ELSE Head(refNums)
                  url == truncatedContents[i].url
                  used2 == PushIfNew(used, url)
                  rest == ProcessRefsClamp(Tail(refNums), truncatedContents, used2)
              IN  [used |-> rest.used,
                   refs |-> <<MarkerFor(used2, url, Head(refNums))>> \o rest.refs]

\* para.references.map(..).filter(Boolean): the ledger after, and the markers
RECURSIVE ProcessRefs(_, _, _)
ProcessRefs(refNums, truncatedContents, used) ==
    IF refNums = <<>> THEN [used |-> used, refs |-> <<>>]
    ELSE LET contentIndex == Head(refNums) - 1
         IN  IF contentIndex >= 0 /\ contentIndex < Len(truncatedContents)
             THEN LET url == truncatedContents[contentIndex + 1].url
                      used2 == PushIfNew(used, url)
                      rest == ProcessRefs(Tail(refNums), truncatedContents, used2)
                  IN  [used |-> rest.used,
                       refs |-> <<MarkerFor(used2, url, Head(refNums))>> \o rest.refs]
             ELSE ProcessRefs(Tail(refNums), truncatedContents, used)

\* object.paragraphs.map(..): the ledger after, and the processed paragraphs
RECURSIVE ProcessParagraphs(_, _, _)
ProcessParagraphs(paragraphs, truncatedContents, used) ==
    IF paragraphs = <<>> THEN [used |-> used, processed |-> <<>>]
    ELSE LET para == Head(paragraphs)
             r == ProcessRefs(para.references, truncatedContents, used)
             rest == ProcessParagraphs(Tail(paragraphs), truncatedContents, r.used)
         IN  [used |-> rest.used,
              processed |-> <<para.text \o r.refs>> \o rest.processed]

(***************************************************************************)
(* Prompts of generateChapterContent.                                      *)
(***************************************************************************)
\* chapters.map((c) => `${c.number}. ${c.title}`).join("\n")
ChaptersText(chs) == Join([i \in 1..Len(chs) |-> <<Tok("chapter", chs[i].number, <<>>)>>], NewLine)

\* a slip: the previous_chapter section is left empty
BasePromptNoPrevious(chapter, chs, previousChapter) ==
    <<Tok("instructions", chapter.number, <<>>)>>
    \o <<Tok("<chapters>", 0, <<>>)>> \o ChaptersText(chs) \o <<Tok("</chapters>", 0, <<>>)>>
    \o <<Tok("<previous_chapter>", 0, <<>>)>> \o <<Tok("</previous_chapter>", 0, <<>>)>>

BasePrompt(chapter, chs, previousChapter) ==
    <<Tok("instructions", chapter.number, <<>>)>>
    \o <<Tok("<chapters>", 0, <<>>)>> \o ChaptersText(chs) \o <<Tok("</chapters>", 0, <<>>)>>
    \o <<Tok("<previous_chapter>", 0, <<>>)>> \o previousChapter
    \o <<Tok("</previous_chapter>", 0, <<>>)>>

\* truncatedContents.map((c, i) => `<content${i + 1}>..`).join("\n\n")
ContentsText(docs) == Join([i \in 1..Len(docs) |-> ContentBlock(i, docs[i].text)], BlankLine)

\* `${basePrompt}\n\n${contentsText}`
FullPrompt(basePrompt, contentsText) == basePrompt \o BlankLine \o contentsText

(***************************************************************************)
(* Answers of the collaborators.                                           *)
(***************************************************************************)
\* usage of a generateObject answer
Usages == {[promptTokens |-> 2, completionTokens |-> 1]}

\* run.usageTotalUsd of an Apify run, in micro-dollars
RunCosts == {1}

\* outlines: chapters with distinct numbers, in the order the model answers them
Outlines ==
    {o \in SeqUpTo([number : 1..MaxChapters, title : {<<Word(7)>>}], MaxChapters) :
        /\ o # <<>>
        /\ \A i \in 1..Len(o) : \E j \in 1..Len(o) : o[j].number = i
        /\ \A i, j \in 1..Len(o) : o[i].number = o[j].number => i = j}

\* a reference number no chapter answer can use validly: the corpus is smaller
TooBig == MaxResults + 1

Para(refNums) == [text |-> <<Word(5)>>, references |-> refNums]

\* paragraphs of a chapter answer
ParagraphLists ==
    { <<Para(<<>>)>>,
      <<Para(<<1>>)>>,
      <<Para(<<1, 2>>)>>,
      <<Para(<<1, 2, 1>>)>>,
      <<Para(<<0, 1, TooBig>>)>>,
      <<Para(<<2>>), Para(<<1>>)>> }

\* price per token of the configured model, in micro-dollars
PriceInput == 3
PriceOutput == 15

ZeroStats == [inputTokens |-> 0, outputTokens |-> 0, llmCost |-> 0, apifyCost |-> 0]

\* a slip: the completion tokens are priced but not counted
updateTokenUsageNoOutput(st, usage) ==
    IF usage # None
    THEN [st EXCEPT !.inputTokens = @ + usage.promptTokens,
                    !.llmCost = @ + usage.promptTokens * PriceInput
                                  + usage.completionTokens * PriceOutput]
    ELSE st

updateTokenUsage(st, usage) ==
    IF usage # None
    THEN [st EXCEPT !.inputTokens = @ + usage.promptTokens,
                    !.outputTokens = @ + usage.completionTokens,
                    !.llmCost = @ + usage.promptTokens * PriceInput
                                  + usage.completionTokens * PriceOutput]
    ELSE st

(***************************************************************************)
(* The pipeline: the try block of main() of index.js, step by step.        *)
(***************************************************************************)
\* a slip: the result URLs are returned as they came
DedupeNone(s, seen) == seen \o s

\* [...new Set(results.map((r) => r.url))]
RECURSIVE Dedupe(_, _)
Dedupe(s, seen) ==
    IF s = <<>> THEN seen
    ELSE Dedupe(Tail(s), IF Includes(seen, Head(s)) THEN seen ELSE Append(seen, Head(s)))

\* a slip: a URL found in the cache is handed to the crawler all the same
RECURSIVE LookupLoopAll(_, _, _, _, _)
LookupLoopAll(rest, files, c, refs, uncached) ==
    IF rest = <<>> THEN [cache |-> c, references |-> refs, uncachedUrls |-> uncached]
    ELSE LET url == Head(rest)
             cachePath == CachePath(url)
         IN  IF pathExists(files, cachePath)
             THEN LET cached == readJSON(files, cachePath)
                  IN  LookupLoopAll(Tail(rest), files, ObjSet(c, url, cached),
                                    MapSet(refs, url, [title |-> TitleOr(cached, url), url |-> url]),
                                    Append(uncached, url))
             ELSE LookupLoopAll(Tail(rest), files, c, refs, Append(uncached, url))

\* the first loop of crawlUrls
RECURSIVE LookupLoop(_, _, _, _, _)
LookupLoop(rest, files, c, refs, uncached) ==
    IF rest = <<>> THEN [cache |-> c, references |-> refs, uncachedUrls |-> uncached]
    ELSE LET url == Head(rest)
             cachePath == CachePath(url)
         IN  IF pathExists(files, cachePath)
             THEN LET cached == readJSON(files, cachePath)
                  IN  LookupLoop(Tail(rest), files, ObjSet(c, url, cached),
                                 MapSet(refs, url, [title |-> TitleOr(cached, url), url |-> url]),
                                 uncached)
             ELSE LookupLoop(Tail(rest), files, c, refs, Append(uncached, url))

\* the second loop of crawlUrls, over dataset.items
RECURSIVE StoreLoop(_, _, _, _)
StoreLoop(items, files, c, refs) ==
    IF items = <<>> THEN [disk |-> files, cache |-> c, references |-> refs]
    ELSE LET item == Head(items)
         IN  StoreLoop(Tail(items),
                       writeJSON(files, CachePath(item.url), item),
                       ObjSet(c, item.url, item),
                       MapSet(refs, item.url,
                              [title |-> TitleOr(item, item.url), url |-> item.url]))

\* dataset.items of a crawl: a document for each start URL that did not fail
CrawlItems(startUrls, got) ==
    LET keep == SelectSeq([i \in 1..Len(startUrls) |-> i], LAMBDA i : got[i])
    IN  [j \in 1..Len(keep) |-> Item(startUrls[keep[j]])]

\* a slip: the bibliography lists the ledger from its end
OrderedReferencesReversed(used, refs) ==
    [i \in 1..Len(used) |->
        [index |-> i, url |-> used[Len(used) + 1 - i],
         title |-> refs[used[Len(used) + 1 - i]].title]]

\* this.usedReferences.map(..) of generateDocument
OrderedReferences(used, refs) ==
    [i \in 1..Len(used) |-> [index |-> i, url |-> used[i], title |-> refs[used[i]].title]]

\* the content array of generateDocument: the date line, the table of contents,
\* the chapters and the bibliography
DocumentContent(chs, used, refs, date) ==
    [date |-> date,
     toc |-> [i \in 1..Len(chs) |-> chs[i].number],
     chapters |-> chs,
     orderedReferences |-> OrderedReferences(used, refs)]

NoBudget == /\ bpc = "idle"
            /\ bPrompt = <<>>
            /\ bContents = <<>>
            /\ bWindow = 0
            /\ bResult = <<>>

NoAssembly == /\ apc = "idle"
              /\ firstDocument = None

FreshRun == /\ cache = <<>>
            /\ references = EmptyMap
            /\ usedReferences = <<>>
            /\ lastRunId = "null"
            /\ activeRun = "none"
            /\ stats = ZeroStats
            /\ questions = <<>>
            /\ answers = <<>>
            /\ queries = <<>>
            /\ urls = <<>>
            /\ uncachedUrls = <<>>
            /\ contents = <<>>
            /\ chapters = <<>>
            /\ chapterContents = <<>>
            /\ previousText = <<>>
            /\ lastCall = None
            /\ document = None
            /\ aborted = "none"
            /\ searchInput = <<>>
            /\ results = <<>>

Init == /\ disk = {}
        /\ run = 1
        /\ contextWindow \in {SmallWindow, LargeWindow}
        /\ pc = "questions"
        /\ today = 1
        /\ FreshRun
        /\ NoBudget
        /\ NoAssembly

\* generateQuestions: the model's questions and the static open-ended one
GenerateQuestions ==
    /\ pc = "questions"
    /\ \E usage \in Usages :
          stats' = updateTokenUsage(stats, usage)
    /\ questions' = <<<<Word(2)>>, <<Word(0)>>>>
    /\ pc' = "ask"
    /\ UNCHANGED <<disk, run, contextWindow, cache, references, usedReferences,
                   lastRunId, activeRun, answers, queries, urls, uncachedUrls,
                   contents, chapters, chapterContents, previousText, lastCall,
                   document, budgetVars, assemblyVars, today, aborted,
                   searchVars>>

\* askQuestions: the user answers every question
AskQuestions ==
    /\ pc = "ask"
    /\ answers' = [i \in 1..Len(questions) |->
                      [question |-> questions[i], answer |-> <<Word(3)>>]]
    /\ pc' = "queries"
    /\ UNCHANGED <<disk, run, contextWindow, cache, references, usedReferences,
                   lastRunId, activeRun, stats, questions, queries, urls,
                   uncachedUrls, contents, chapters, chapterContents, previousText,
                   lastCall, document, budgetVars, assemblyVars, today, aborted,
                   searchVars>>

GenerateSearchQueries ==
    /\ pc = "queries"
    /\ \E usage \in Usages :
          stats' = updateTokenUsage(stats, usage)
    /\ queries' = <<<<Word(4)>>, <<Word(5)>>>>
    /\ pc' = "search"
    /\ UNCHANGED <<disk, run, contextWindow, cache, references, usedReferences,
                   lastRunId, activeRun, questions, answers, urls, uncachedUrls,
                   contents, chapters, chapterContents, previousText, lastCall,
                   document, budgetVars, assemblyVars, today, aborted,
                   searchVars>>

\* searchQueries up to its first await: the actor run starts
SearchCall ==
    /\ pc = "search"
    /\ activeRun' = "search-run"
    /\ searchInput' = Join(queries, NewLine)
    /\ pc' = "searching"
    /\ UNCHANGED <<disk, run, contextWindow, cache, references, usedReferences,
                   lastRunId, stats, questions, answers, queries, urls,
                   uncachedUrls, contents, chapters, chapterContents, previousText,
                   lastCall, document, budgetVars, assemblyVars, today, aborted,
                   results>>

\* searchQueries from the return of call(): the run has finished
SearchReturn ==
    /\ pc = "searching"
    /\ lastRunId' = activeRun
    /\ activeRun' = "none"
    /\ \E organicResults \in SeqUpTo(UrlPool, MaxResults), usageTotalUsd \in RunCosts :
          /\ stats' = [stats EXCEPT !.apifyCost = @ + usageTotalUsd]
          /\ results' = organicResults
          /\ urls' = Dedupe(organicResults, <<>>)
    /\ pc' = "crawl"
    /\ UNCHANGED <<disk, run, contextWindow, cache, references, usedReferences,
                   questions, answers, queries, uncachedUrls, contents, chapters,
                   chapterContents, previousText, lastCall, document, budgetVars,
                   assemblyVars, today, aborted, searchInput>>

\* crawlUrls up to the call of the crawler, or to its return when nothing is uncached
CrawlLookup ==
    /\ pc = "crawl"
    /\ LET r == LookupLoop(urls, disk, cache, references, <<>>)
       IN  /\ cache' = r.cache
           /\ references' = r.references
           /\ IF Len(r.uncachedUrls) > 0
              THEN /\ uncachedUrls' = r.uncachedUrls
                   /\ activeRun' = "crawl-run"
                   /\ contents' = contents
                   /\ pc' = "crawling"
              ELSE /\ uncachedUrls' = <<>>
                   /\ UNCHANGED activeRun
                   /\ contents' = ObjValues(r.cache)
                   /\ pc' = "outline"
    /\ results' = <<>>
    /\ UNCHANGED <<disk, run, contextWindow, usedReferences, lastRunId, stats,
                   questions, answers, queries, urls, chapters, chapterContents,
                   previousText, lastCall, document, budgetVars, assemblyVars,
                   today, aborted, searchInput>>

\* crawlUrls from the return of call(): the items are stored
CrawlReturn ==
    /\ pc = "crawling"
    /\ lastRunId' = activeRun
    /\ activeRun' = "none"
    /\ \E got \in [1..Len(uncachedUrls) -> BOOLEAN], usageTotalUsd \in RunCosts :
          LET r == StoreLoop(CrawlItems(uncachedUrls, got), disk, cache, references)
          IN  /\ stats' = [stats EXCEPT !.apifyCost = @ + usageTotalUsd]
              /\ disk' = r.disk
              /\ cache' = r.cache
              /\ references' = r.references
              /\ contents' = ObjValues(r.cache)
    /\ uncachedUrls' = <<>>
    /\ pc' = "outline"
    /\ UNCHANGED <<run, contextWindow, usedReferences, questions, answers, queries,
                   urls, chapters, chapterContents, previousText, lastCall, document,
                   budgetVars, assemblyVars, today, aborted,
                   searchVars>>

GenerateChapters ==
    /\ pc = "outline"
    /\ \E usage \in Usages, outline \in Outlines :
          /\ stats' = updateTokenUsage(stats, usage)
          /\ chapters' = outline
    /\ pc' = "chapters"
    /\ UNCHANGED <<disk, run, contextWindow, cache, references, usedReferences,
                   lastRunId, activeRun, questions, answers, queries, urls,
                   uncachedUrls, contents, chapterContents, previousText, lastCall,
                   document, budgetVars, assemblyVars, today, aborted,
                   searchVars>>

\* one iteration of the loop of main() over chapters: generateChapterContent
GenerateChapterContent ==
    /\ pc = "chapters"
    /\ Len(chapterContents) < Len(chapters)
    /\ LET chapter == chapters[Len(chapterContents) + 1]
           basePrompt == BasePrompt(chapter, chapters, previousText)
           truncatedContents == truncateContentsToFit(basePrompt, contents, contextWindow)
           prompt == FullPrompt(basePrompt, ContentsText(truncatedContents))
       IN  \E usage \in Usages, paragraphs \in ParagraphLists :
              LET r == ProcessParagraphs(paragraphs, truncatedContents, usedReferences)
                  text == Join(r.processed, BlankLine)
              IN  /\ usedReferences' = r.used
                  /\ stats' = updateTokenUsage(stats, usage)
                  /\ previousText' = previousText \o text
                  /\ chapterContents' =
                        Append(chapterContents,
                               [number |-> chapter.number, title |-> chapter.title,
                                content |-> text, summary |-> <<Word(6)>>])
                  /\ lastCall' = [basePrompt |-> basePrompt,
                                  truncatedContents |-> truncatedContents,
                                  prompt |-> prompt,
                                  paragraphs |-> paragraphs,
                                  usedBefore |-> usedReferences]
    /\ pc' = "chapters"
    /\ UNCHANGED <<disk, run, contextWindow, cache, references, lastRunId,
                   activeRun, questions, answers, queries, urls, uncachedUrls,
                   contents, chapters, document, budgetVars, assemblyVars, today, aborted,
                   searchVars>>

\* a slip: the summary does not wait for the loop over the chapters to end
GenerateSummaryEarly ==
    /\ pc = "chapters"
    /\ \E usage \in Usages :
          stats' = updateTokenUsage(stats, usage)
    /\ pc' = "document"
    /\ UNCHANGED <<disk, run, contextWindow, cache, references, usedReferences,
                   lastRunId, activeRun, questions, answers, queries, urls,
                   uncachedUrls, contents, chapters, chapterContents, previousText,
                   lastCall, document, budgetVars, assemblyVars, today, aborted,
                   searchVars>>

GenerateSummary ==
    /\ pc = "chapters"
    /\ Len(chapterContents) = Len(chapters)
    /\ \E usage \in Usages :
          stats' = updateTokenUsage(stats, usage)
    /\ pc' = "document"
    /\ UNCHANGED <<disk, run, contextWindow, cache, references, usedReferences,
                   lastRunId, activeRun, questions, answers, queries, urls,
                   uncachedUrls, contents, chapters, chapterContents, previousText,
                   lastCall, document, budgetVars, assemblyVars, today, aborted,
                   searchVars>>

\* a slip: assembly empties the ledger it has listed
GenerateDocumentConsuming ==
    /\ pc = "document"
    /\ IF \A i \in 1..Len(usedReferences) : usedReferences[i] \in DOMAIN references
       THEN /\ document' =
                  DocumentContent(chapterContents, usedReferences, references, today)
            /\ pc' = "completed"
       ELSE /\ document' = document
            /\ pc' = "failed"
    /\ usedReferences' = <<>>
    /\ UNCHANGED <<disk, run, contextWindow, cache, references,
                   lastRunId, activeRun, stats, questions, answers, queries, urls,
                   uncachedUrls, contents, chapters, chapterContents, previousText,
                   lastCall, budgetVars, assemblyVars, today, aborted,
                   searchVars>>

\* generateDocument: `ref.title` throws when the Map has no entry for a ledger URL
GenerateDocument ==
    /\ pc = "document"
    /\ IF \A i \in 1..Len(usedReferences) : usedReferences[i] \in DOMAIN references
       THEN /\ document' =
                  DocumentContent(chapterContents, usedReferences, references, today)
            /\ pc' = "completed"
       ELSE /\ document' = document
            /\ pc' = "failed"
    /\ UNCHANGED <<disk, run, contextWindow, cache, references, usedReferences,
                   lastRunId, activeRun, stats, questions, answers, queries, urls,
                   uncachedUrls, contents, chapters, chapterContents, previousText,
                   lastCall, budgetVars, assemblyVars, today, aborted,
                   searchVars>>

\* crawlUrls when fs.readJSON throws on the record of urls[i]: nothing catches it
\* before the catch block of main()
CrawlReadFails ==
    /\ pc = "crawl"
    /\ \E i \in 1..Len(urls) :
          /\ pathExists(disk, CachePath(urls[i]))
          /\ LET r == LookupLoop(SubSeq(urls, 1, i - 1), disk, cache, references, <<>>)
             IN  /\ cache' = r.cache
                 /\ references' = r.references
    /\ pc' = "failed"
    /\ UNCHANGED <<disk, run, contextWindow, usedReferences, lastRunId, activeRun,
                   stats, questions, answers, queries, urls, uncachedUrls, contents,
                   chapters, chapterContents, previousText, lastCall, document,
                   budgetVars, assemblyVars, today, aborted,
                   searchVars>>

\* crawlUrls when fs.writeJSON throws on the k-th item of the dataset: the items
\* before it are stored, nothing catches the error before the catch block of main()
CrawlWriteFails ==
    /\ pc = "crawling"
    /\ lastRunId' = activeRun
    /\ activeRun' = "none"
    /\ \E got \in [1..Len(uncachedUrls) -> BOOLEAN], usageTotalUsd \in RunCosts :
          LET items == CrawlItems(uncachedUrls, got)
          IN  \E k \in 1..Len(items) :
                 LET r == StoreLoop(SubSeq(items, 1, k - 1), disk, cache, references)
                 IN  /\ stats' = [stats EXCEPT !.apifyCost = @ + usageTotalUsd]
                     /\ disk' = r.disk
                     /\ cache' = r.cache
                     /\ references' = r.references
    /\ uncachedUrls' = <<>>
    /\ pc' = "failed"
    /\ UNCHANGED <<run, contextWindow, usedReferences, questions, answers, queries,
                   urls, contents, chapters, chapterContents, previousText, lastCall,
                   document, budgetVars, assemblyVars, today, aborted,
                   searchVars>>

\* the SIGINT handler of main(): abort the run lastRunId names, if it names one,
\* and exit
Sigint ==
    /\ pc \in {"questions", "ask", "queries", "search", "searching", "crawl",
               "crawling", "outline", "chapters", "document"}
    /\ aborted' = IF lastRunId # "null" THEN lastRunId ELSE "none"
    /\ pc' = "exited"
    /\ UNCHANGED <<disk, run, contextWindow, cache, references, usedReferences,
                   lastRunId, activeRun, stats, questions, answers, queries, urls,
                   uncachedUrls, contents, chapters, chapterContents, previousText,
                   lastCall, document, today, budgetVars, assemblyVars,
                   searchVars>>

\* a slip: the catch block reports a fresh accumulator
CatchReset ==
    /\ pc \in {"questions", "queries", "searching", "crawling", "outline", "chapters"}
    /\ pc' = "failed"
    /\ activeRun' = "none"
    /\ stats' = ZeroStats
    /\ UNCHANGED <<disk, run, contextWindow, cache, references, usedReferences,
                   lastRunId, questions, answers, queries, urls, uncachedUrls,
                   contents, chapters, chapterContents, previousText, lastCall,
                   document, budgetVars, assemblyVars, today, aborted,
                   searchVars>>

\* the catch block of main(): a collaborator call threw
Catch ==
    /\ pc \in {"questions", "queries", "searching", "crawling", "outline", "chapters"}
    /\ pc' = "failed"
    /\ activeRun' = "none"
    /\ UNCHANGED <<disk, run, contextWindow, cache, references, usedReferences,
                   lastRunId, stats, questions, answers, queries, urls, uncachedUrls,
                   contents, chapters, chapterContents, previousText, lastCall,
                   document, budgetVars, assemblyVars, today, aborted,
                   searchVars>>

\* the program is started again: a new process, the same cache directory
NewRun ==
    /\ pc \in {"completed", "failed", "exited"}
    /\ run < MaxRuns
    /\ run' = run + 1
    /\ pc' = "questions"
    /\ cache' = <<>>
    /\ references' = EmptyMap
    /\ usedReferences' = <<>>
    /\ lastRunId' = "null"
    /\ activeRun' = "none"
    /\ stats' = ZeroStats
    /\ questions' = <<>>
    /\ answers' = <<>>
    /\ queries' = <<>>
    /\ urls' = <<>>
    /\ uncachedUrls' = <<>>
    /\ contents' = <<>>
    /\ chapters' = <<>>
    /\ chapterContents' = <<>>
    /\ previousText' = <<>>
    /\ lastCall' = None
    /\ document' = None
    /\ aborted' = "none"
    /\ searchInput' = <<>>
    /\ results' = <<>>
    /\ UNCHANGED <<disk, contextWindow, today, budgetVars, assemblyVars>>

Next ==
    \/ GenerateQuestions
    \/ AskQuestions
    \/ GenerateSearchQueries
    \/ SearchCall
    \/ SearchReturn
    \/ CrawlLookup
    \/ CrawlReturn
    \/ CrawlReadFails
    \/ CrawlWriteFails
    \/ GenerateChapters
    \/ GenerateChapterContent
    \/ GenerateSummary
    \/ GenerateDocument
    \/ Catch
    \/ Sigint
    \/ NewRun

Spec == Init /\ [][Next]_vars

(***************************************************************************)
(* The budgeter on its own: truncateContentsToFit applied to every prompt, *)
(* document sequence and context window within the bounds.                 *)
(***************************************************************************)
\* a prompt of n tokens
PromptOf(n) == [i \in 1..n |-> Word(i)]

\* documents of 0, 1 and 2 tokens
BudgetDocs ==
    { [url |-> UrlA, text |-> <<>>],
      [url |-> UrlAUpper, text |-> <<Word(1)>>],
      [url |-> UrlB, text |-> <<Word(1), Word(2)>>] }

BudgetInit ==
    /\ bpc = "ready"
    /\ bPrompt \in {PromptOf(n) : n \in 0..MaxPrompt}
    /\ bContents \in SeqUpTo(BudgetDocs, MaxDocs)
    /\ bWindow \in 0..MaxWindow
    /\ bResult = <<>>
    /\ disk = {}
    /\ run = 1
    /\ contextWindow = 0
    /\ pc = "off"
    /\ today = 1
    /\ FreshRun
    /\ NoAssembly

Select ==
    /\ bpc = "ready"
    /\ bResult' = truncateContentsToFit(bPrompt, bContents, bWindow)
    /\ bpc' = "done"
    /\ UNCHANGED <<bPrompt, bContents, bWindow, pipelineVars, assemblyVars>>

BudgetNext == Select

SpecBudget == BudgetInit /\ [][BudgetNext]_vars

(***************************************************************************)
(* Assembly on its own: generateDocument called twice on one finalized     *)
(* run state, the days passing as they may.                                *)
(***************************************************************************)
\* the ledgers of finalized runs
Ledgers == {l \in SeqUpTo(UrlPool, MaxLedger) : NoDup(l)}

\* the references Map of a run that crawled every URL of the pool
FullReferences == [u \in UrlPool |-> [title |-> TitleOr(Item(u), u), url |-> u]]

\* the chapters of a finalized run of n chapters whose first chapter cites the
\* whole ledger
FinalChapters(ledger, n) ==
    [c \in 1..n |->
        [number |-> c, title |-> <<Word(7)>>, summary |-> <<Word(6)>>,
         content |-> IF c = 1
                     THEN <<Word(5)>> \o [k \in 1..Len(ledger) |-> RenderMarker(k, ledger[k])]
                     ELSE <<Word(5)>>]]

AssemblyInit ==
    /\ apc = "ready"
    /\ firstDocument = None
    /\ today = 1
    /\ \E ledger \in Ledgers, n \in 1..MaxChapters :
          /\ usedReferences = ledger
          /\ chapterContents = FinalChapters(ledger, n)
    /\ references \in {FullReferences, [u \in UrlPool \ {UrlA} |-> FullReferences[u]]}
    /\ document = None
    /\ NoBudget
    /\ disk = {}
    /\ run = 1
    /\ contextWindow = 0
    /\ pc = "off"
    /\ cache = <<>>
    /\ lastRunId = "null"
    /\ activeRun = "none"
    /\ stats = ZeroStats
    /\ questions = <<>>
    /\ answers = <<>>
    /\ queries = <<>>
    /\ urls = <<>>
    /\ uncachedUrls = <<>>
    /\ contents = <<>>
    /\ chapters = <<>>
    /\ previousText = <<>>
    /\ lastCall = None
    /\ aborted = "none"
    /\ searchInput = <<>>
    /\ results = <<>>

\* generateDocument, called for the first or the second time
Assemble ==
    /\ apc \in {"ready", "once"}
    /\ IF \A i \in 1..Len(usedReferences) : usedReferences[i] \in DOMAIN references
       THEN /\ document' =
                  DocumentContent(chapterContents, usedReferences, references, today)
            /\ firstDocument' = IF apc = "ready" THEN document' ELSE firstDocument
            /\ apc' = IF apc = "ready" THEN "once" ELSE "twice"
       ELSE /\ apc' = "threw"
            /\ UNCHANGED <<document, firstDocument,
                   searchVars>>
    /\ UNCHANGED <<disk, run, pc, contextWindow, cache, references, usedReferences,
                   lastRunId, activeRun, stats, questions, answers, queries, urls,
                   uncachedUrls, contents, chapters, chapterContents, previousText,
                   lastCall, today, aborted, budgetVars,
                   searchVars>>

\* midnight, UTC
DayPasses ==
    /\ apc \in {"ready", "once"}
    /\ today < MaxDay
    /\ today' = today + 1
    /\ UNCHANGED <<disk, run, pc, contextWindow, cache, references, usedReferences,
                   lastRunId, activeRun, stats, questions, answers, queries, urls,
                   uncachedUrls, contents, chapters, chapterContents, previousText,
                   lastCall, document, aborted, budgetVars, assemblyVars,
                   searchVars>>

AssemblyNext == Assemble \/ DayPasses

SpecAssembly == AssemblyInit /\ [][AssemblyNext]_vars

(***************************************************************************)
(* Observations used by the properties.                                    *)
(***************************************************************************)
\* the citation markers of a text, in order
Markers(text) == SelectSeq(text, IsMarker)

\* the reference numbers of an answer, paragraph by paragraph
AllRefNums(paragraphs) == Flatten([i \in 1..Len(paragraphs) |-> paragraphs[i].references])

\* those of them that point into a selection of n documents
ValidRefNums(paragraphs, n) == SelectSeq(AllRefNums(paragraphs), LAMBDA r : r \in 1..n)

\* the URLs the last chapter-body answer cited, in order
CitedUrls ==
    LET valid == ValidRefNums(lastCall.paragraphs, Len(lastCall.truncatedContents))
    IN  [j \in 1..Len(valid) |-> lastCall.truncatedContents[valid[j]].url]

\* the text of the chapter produced by the last chapter-body call
LastText == chapterContents[Len(chapterContents)].content

\* the sum the budgeter is to keep within the window
Cumulative(prompt, selection) ==
    LET RECURSIVE Sum(_)
        Sum(i) == IF i = 0 THEN 0
                  ELSE Sum(i - 1) + estimateTokens(ContentBlock(i, selection[i].text))
    IN  estimateTokens(prompt) + Sum(Len(selection))

\* url.toLowerCase().trim()
Normalized(url) == trim(toLowerCase(url))

(***************************************************************************)
(* C1: citing a URL returns the 1-based position of its first use: a URL   *)
(* the ledger already had keeps its index, the k-th new URL of a call gets *)
(* the old length plus k, and the ledger holds the URL at that index.      *)
(***************************************************************************)
FirstUseIndex(before, cited, j) ==
    IF Includes(before, cited[j]) THEN IndexOf(before, cited[j])
    ELSE LET first == IndexOf(cited, cited[j])
         IN  Len(before) + Cardinality({cited[i] : i \in 1..first} \ Range(before))

C1_FirstUseIndex ==
    lastCall # None =>
        LET marks == Markers(LastText)
        IN  /\ Len(marks) = Len(CitedUrls)
            /\ \A j \in 1..Len(marks) :
                  /\ marks[j].v = FirstUseIndex(lastCall.usedBefore, CitedUrls, j)
                  /\ marks[j].v \in 1..Len(usedReferences)
                  /\ usedReferences[marks[j].v] = CitedUrls[j]

\* u1, u2, u1 were cited and got 1, 2, 1
C1_Witness ==
    /\ lastCall # None
    /\ lastCall.usedBefore = <<>>
    /\ Len(CitedUrls) = 3
    /\ CitedUrls[1] # CitedUrls[2]
    /\ CitedUrls[3] = CitedUrls[1]
    /\ [j \in 1..3 |-> Markers(LastText)[j].v] = <<1, 2, 1>>

(***************************************************************************)
(* C2: within a run the ledger is append-only: every step leaves the old   *)
(* ledger a prefix of the new one, and the ledger never holds a URL twice. *)
(***************************************************************************)
C2_AppendOnly ==
    [][run' = run => /\ IsPrefix(usedReferences, usedReferences')
                     /\ NoDup(usedReferences')]_vars

\* a second chapter-body call appended to the ledger the first one started
C2_Witness ==
    /\ Len(chapterContents) >= 2
    /\ lastCall.usedBefore # <<>>
    /\ Len(usedReferences) > Len(lastCall.usedBefore)

(***************************************************************************)
(* C3: chapter bodies are generated in ascending chapter-number order,     *)
(* whatever order the outline came in.                                     *)
(***************************************************************************)
C3_AscendingOrder ==
    \A i, j \in 1..Len(chapterContents) :
        i < j => chapterContents[i].number < chapterContents[j].number

(***************************************************************************)
(* C4: the selection of truncateContentsToFit never exceeds the window.    *)
(* As claimed, for every template: C4_Original.  As amended, for every     *)
(* template whose own estimate does not exceed the window, a larger        *)
(* template getting the empty selection: C4_WithinWindow.                  *)
(***************************************************************************)
C4_Original == bpc = "done" => Cumulative(bPrompt, bResult) <= bWindow

C4_WithinWindow ==
    bpc = "done" =>
        IF estimateTokens(bPrompt) <= bWindow
        THEN Cumulative(bPrompt, bResult) <= bWindow
        ELSE bResult = <<>>

\* two documents were accepted, a third refused, and the window is full
C4_Witness ==
    /\ bpc = "done"
    /\ Len(bResult) = 2
    /\ Len(bContents) = 3
    /\ bPrompt # <<>>
    /\ Cumulative(bPrompt, bResult) = bWindow

(***************************************************************************)
(* C5: the selection is a prefix of the documents, and the longest one     *)
(* that fits: the document after it, in its delimiter, would overflow.     *)
(***************************************************************************)
C5_MaximalPrefix ==
    bpc = "done" =>
        /\ IsPrefix(bResult, bContents)
        /\ Len(bResult) < Len(bContents) =>
              Cumulative(bPrompt, bResult)
                + estimateTokens(ContentBlock(Len(bResult) + 1,
                                              bContents[Len(bResult) + 1].text))
              > bWindow

\* the second document overflowed and the third, smaller, would have fitted
C5_Witness ==
    /\ bpc = "done"
    /\ Len(bContents) = 3
    /\ Len(bResult) = 1
    /\ Cumulative(bPrompt, bResult)
         + estimateTokens(ContentBlock(2, bContents[3].text)) <= bWindow

(***************************************************************************)
(* C6: a chapter-body call whose template alone meets or exceeds the       *)
(* window is made with no documents: the prompt is the template.           *)
(***************************************************************************)
C6_EmptySelection ==
    (lastCall # None /\ estimateTokens(lastCall.basePrompt) >= contextWindow) =>
        /\ lastCall.truncatedContents = <<>>
        /\ lastCall.prompt = lastCall.basePrompt \o BlankLine

\* the template filled the window, there were documents, the chapter was produced
C6_Witness ==
    /\ lastCall # None
    /\ estimateTokens(lastCall.basePrompt) >= contextWindow
    /\ contents # <<>>
    /\ pc = "chapters"
    /\ chapterContents # <<>>

(***************************************************************************)
(* C7: the prompt sent by a chapter-body call whose template is below the  *)
(* window is itself estimated at no more than the window.                  *)
(***************************************************************************)
C7_PromptWithinWindow ==
    (lastCall # None /\ estimateTokens(lastCall.basePrompt) < contextWindow) =>
        estimateTokens(lastCall.prompt) <= contextWindow

(***************************************************************************)
(* C8: the marker of a valid local reference i carries the URL of the i-th *)
(* budgeted document and that URL's index in the ledger; when chapter 1    *)
(* cited document 1 and chapter 2 documents 1 and 2, the ledger is         *)
(* <<url1, url2>> and chapter 2's markers carry 1 and 2.                   *)
(***************************************************************************)
C8_Scenario ==
    /\ Len(chapterContents) = 2
    /\ Len(Markers(chapterContents[1].content)) = 1
    /\ Len(lastCall.truncatedContents) >= 2
    /\ Markers(chapterContents[1].content)[1].u = lastCall.truncatedContents[1].url
    /\ lastCall.truncatedContents[2].url # lastCall.truncatedContents[1].url
    /\ AllRefNums(lastCall.paragraphs) = <<1, 2>>

C8_GlobalIndex ==
    lastCall # None =>
        LET marks == Markers(LastText)
            docs == lastCall.truncatedContents
            valid == ValidRefNums(lastCall.paragraphs, Len(docs))
        IN  /\ Len(marks) = Len(valid)
            /\ \A j \in 1..Len(marks) :
                  /\ marks[j].u = docs[valid[j]].url
                  /\ marks[j].v = IndexOf(usedReferences, docs[valid[j]].url)
                  /\ marks[j].v >= 1
            /\ C8_Scenario =>
                  /\ usedReferences = <<docs[1].url, docs[2].url>>
                  /\ marks = <<RenderMarker(1, docs[1].url), RenderMarker(2, docs[2].url)>>

\* the scenario happened with a second document that a local index did not name
C8_Witness == C8_Scenario

(***************************************************************************)
(* C9: at assembly time every marker of every chapter names a ledger index *)
(* whose entry is the marker's URL, with a title stored for it.            *)
(***************************************************************************)
C9_MarkersResolve ==
    pc = "document" =>
        \A c \in 1..Len(chapterContents) :
            \A j \in 1..Len(Markers(chapterContents[c].content)) :
                LET m == Markers(chapterContents[c].content)[j]
                IN  /\ m.v \in 1..Len(usedReferences)
                    /\ usedReferences[m.v] = m.u
                    /\ m.u \in DOMAIN references

(***************************************************************************)
(* C10: the cache directory holds one record per normalized URL; a URL     *)
(* with a record is a hit, of a lookup that reads its records, whose       *)
(* document is the record's; a crawled                                     *)
(* document is on record after the crawl unless a document of the same     *)
(* normalized URL, crawled with it, replaced it.                           *)
(***************************************************************************)
C10_OneRecord ==
    \A f, g \in disk :
        Normalized(f.content.url) = Normalized(g.content.url) => f = g

C10_Hit ==
    pc = "crawl" /\ pc' \in {"crawling", "outline"} =>
        \A i \in 1..Len(urls) : \A f \in disk :
            Normalized(f.content.url) = Normalized(urls[i]) =>
                \E k \in 1..Len(cache') :
                    cache'[k].key = urls[i] /\ cache'[k].val = f.content

C10_Stored ==
    pc = "crawling" /\ pc' = "outline" =>
        \A k \in 1..Len(cache') :
            cache'[k].key \in Range(uncachedUrls) =>
                \E f \in disk' :
                    /\ Normalized(f.content.url) = Normalized(cache'[k].key)
                    /\ \E n \in 1..Len(cache') :
                          /\ cache'[n].val = f.content
                          /\ Normalized(cache'[n].key) = Normalized(cache'[k].key)
                          /\ n >= k

C10_CacheRoundTrip ==
    /\ []C10_OneRecord
    /\ [][C10_Hit /\ C10_Stored]_vars

\* a second run is served from the one record two crawled documents were written to
C10_Witness ==
    /\ run = 2
    /\ pc = "outline"
    /\ lastRunId = "search-run"
    /\ Cardinality(disk) = 1
    /\ cache = <<[key |-> UrlA, val |-> Item(UrlAUpper)]>>

(***************************************************************************)
(* C11: a cache record that cannot be read, or a cache write that fails,   *)
(* never moves the run to Failed: the crawl stage goes on from its lookup, *)
(* and from the storing of the crawler's documents, to the next step.      *)
(***************************************************************************)
C11_CacheIONonFatal ==
    [][/\ pc = "crawl" => pc' # "failed"
       /\ (pc = "crawling" /\ lastRunId' = "crawl-run") => pc' # "failed"]_vars

(***************************************************************************)
(* C12: while a search or crawl actor run is in flight, lastRunId names    *)
(* that run, so that the SIGINT handler, arriving then, aborts it.         *)
(***************************************************************************)
C12_InFlightExposed ==
    /\ activeRun # "none" => lastRunId = activeRun
    /\ (pc = "exited" /\ activeRun # "none") => aborted = activeRun

(***************************************************************************)
(* C13: the step in which a stage throws ends the run in Failed with the   *)
(* accumulator as the completed calls left it (a crawl whose actor call    *)
(* returned before the throw has added its cost); after Failed or          *)
(* Completed no stage of that run starts; a Completed run has produced     *)
(* every stage's output and a Failed one no report.  The process being     *)
(* ended by the SIGINT handler is not a stage's error and not a state of   *)
(* the run.                                                                *)
(***************************************************************************)
C13_FailureStep ==
    (pc' = "failed" /\ pc # "failed") =>
        /\ run' = run
        /\ \/ stats' = stats
           \/ /\ pc = "crawling"
              /\ lastRunId' = "crawl-run"
              /\ \E usageTotalUsd \in RunCosts :
                    stats' = [stats EXCEPT !.apifyCost = @ + usageTotalUsd]
        /\ UNCHANGED <<questions, answers, queries, urls, contents, chapters,
                       chapterContents, document>>

C13_NoLaterStage ==
    pc \in {"failed", "completed"} =>
        \/ UNCHANGED <<pc, stats, document>>
        \/ run' = run + 1 /\ pc' = "questions"

C13_Terminal ==
    /\ pc \in {"questions", "ask", "queries", "search", "searching", "crawl",
               "crawling", "outline", "chapters", "document",
               "completed", "failed", "exited"}
    /\ pc = "completed" =>
          /\ questions # <<>> /\ queries # <<>> /\ chapters # <<>>
          /\ Len(chapterContents) = Len(chapters)
          /\ document # None
    /\ pc = "failed" => document = None

C13_FailedCleanly ==
    /\ []C13_Terminal
    /\ [][C13_FailureStep /\ C13_NoLaterStage]_vars

\* a stage threw after model calls, a search and a crawl had added their usage
C13_Witness ==
    /\ pc = "failed"
    /\ stats.inputTokens > 0
    /\ stats.apifyCost > 1
    /\ chapterContents # <<>>

(***************************************************************************)
(* C14: within a run no counter of the accumulator ever decreases; the     *)
(* step that completes a generation call adds the call's prompt tokens,    *)
(* completion tokens and their price, and the step that completes a search *)
(* or crawl call adds the run's dollar cost.                               *)
(***************************************************************************)
StatsLeq(a, b) ==
    /\ a.inputTokens <= b.inputTokens
    /\ a.outputTokens <= b.outputTokens
    /\ a.llmCost <= b.llmCost
    /\ a.apifyCost <= b.apifyCost

\* the step from a to b completed a generation call
AddsUsage(a, b) ==
    \E usage \in Usages :
        /\ b.inputTokens = a.inputTokens + usage.promptTokens
        /\ b.outputTokens = a.outputTokens + usage.completionTokens
        /\ b.llmCost = a.llmCost + usage.promptTokens * PriceInput
                                 + usage.completionTokens * PriceOutput
        /\ b.apifyCost = a.apifyCost

\* the step from a to b completed an actor call
AddsRunCost(a, b) ==
    \E usageTotalUsd \in RunCosts :
        b = [a EXCEPT !.apifyCost = @ + usageTotalUsd]

C14_Monotonic ==
    [][/\ run' = run => StatsLeq(stats, stats')
       /\ (pc = "questions" /\ pc' = "ask") => AddsUsage(stats, stats')
       /\ (pc = "queries" /\ pc' = "search") => AddsUsage(stats, stats')
       /\ (pc = "outline" /\ pc' = "chapters") => AddsUsage(stats, stats')
       /\ (pc = "chapters" /\ pc' \in {"chapters", "document"}) =>
             AddsUsage(stats, stats')
       /\ (pc = "searching" /\ pc' = "crawl") => AddsRunCost(stats, stats')
       /\ (pc = "crawling" /\ lastRunId' = "crawl-run") => AddsRunCost(stats, stats')]_vars

\* every kind of call has completed: two actor runs and six generation calls
C14_Witness ==
    /\ pc = "completed"
    /\ Len(chapterContents) = 2
    /\ stats.apifyCost = 2
    /\ stats.inputTokens = 12
    /\ stats.outputTokens = 6
    /\ stats.llmCost = 6 * (2 * PriceInput + PriceOutput)

(***************************************************************************)
(* C15: generateDocument called twice on the same chapters and ledger      *)
(* gives the same text both times, and leaves ledger and chapters as they  *)
(* were.                                                                   *)
(***************************************************************************)
C15_SameText == apc = "twice" => document = firstDocument

C15_Idempotent ==
    /\ []C15_SameText
    /\ [][UNCHANGED <<usedReferences, chapterContents>>]_vars

(***************************************************************************)
(* C16: the previous-chapters buffer is the texts of the chapters produced *)
(* so far, one after the other, and the prompt of a chapter-body call      *)
(* contains the text of every chapter produced before it, verbatim.        *)
(***************************************************************************)
Contains(text, part) ==
    \E k \in 0..(Len(text) - Len(part)) : SubSeq(text, k + 1, k + Len(part)) = part

C16_PreviousCarried ==
    /\ previousText = Flatten([i \in 1..Len(chapterContents) |-> chapterContents[i].content])
    /\ lastCall # None =>
          \A i \in 1..(Len(chapterContents) - 1) :
              Contains(lastCall.prompt, chapterContents[i].content)

\* the second chapter's prompt carried a first chapter that had citations
C16_Witness ==
    /\ lastCall # None
    /\ Len(chapterContents) = 2
    /\ Len(Markers(chapterContents[1].content)) >= 2
    /\ Len(chapterContents[2].content) >= 1

(***************************************************************************)
(* C17: a reference number outside 1..n, n the number of budgeted          *)
(* documents of the call, gives no marker and no ledger entry and does not *)
(* fail the call: the chapter is produced, its markers are those of the    *)
(* valid numbers, in order, and the ledger grew by their new URLs only.    *)
(***************************************************************************)
RECURSIVE AppendNew(_, _)
AppendNew(ledger, cited) ==
    IF cited = <<>> THEN ledger
    ELSE AppendNew(IF Includes(ledger, Head(cited)) THEN ledger
                   ELSE Append(ledger, Head(cited)),
                   Tail(cited))

HasRecord(files, url) ==
    \E f \in files : Normalized(f.content.url) = Normalized(url)

Misses(requested, files) ==
    SelectSeq(requested, LAMBDA u : ~HasRecord(files, u))

C18_AskedForMisses ==
    (pc = "crawl" /\ pc' \in {"crawling", "outline"}) =>
        IF Misses(urls, disk) # <<>>
        THEN /\ pc' = "crawling"
             /\ activeRun' = "crawl-run"
             /\ uncachedUrls' = Misses(urls, disk)
        ELSE /\ pc' = "outline"
             /\ activeRun' = "none"
             /\ UNCHANGED <<stats, disk, lastRunId>>

C18_WrittenBeforeReturn ==
    (pc = "crawling" /\ pc' = "outline") =>
        /\ \A k \in 1..Len(cache') :
              cache'[k].key \in Range(uncachedUrls) =>
                  /\ cache'[k].val \in Range(contents')
                  /\ HasRecord(disk', cache'[k].val.url)
        /\ \A f \in disk' \ disk :
              \E k \in 1..Len(cache') :
                  cache'[k].key \in Range(uncachedUrls) /\ cache'[k].val = f.content

C18_CrawlOnlyMisses == [][C18_AskedForMisses /\ C18_WrittenBeforeReturn]_vars

\* a second run found one of its two URLs in the cache and asked for the other
C18_Witness ==
    /\ run = 2
    /\ pc = "crawling"
    /\ Len(urls) = 2
    /\ Len(uncachedUrls) = 1
    /\ Len(cache) = 1
    /\ ~HasRecord(disk, uncachedUrls[1])

(***************************************************************************)
(* C19: the stages run in the order clarify, queries, search, crawl,       *)
(* outline, chapter bodies, summary, assembly: each step goes to the next  *)
(* position of that order (or to Failed, or the process is interrupted), a *)
(* stage starts with the output of the stages before it at hand, an actor  *)
(* run is in flight only while the one stage that called it waits for it,  *)
(* and summary, assembly and Completed find one chapter body per chapter   *)
(* of the outline, in the outline's order.                                 *)
(***************************************************************************)
StageSuccessors(p) ==
    CASE p = "questions" -> {"ask"}
      [] p = "ask"       -> {"queries"}
      [] p = "queries"   -> {"search"}
      [] p = "search"    -> {"searching"}
      [] p = "searching" -> {"crawl"}
      [] p = "crawl"     -> {"crawling", "outline"}
      [] p = "crawling"  -> {"outline"}
      [] p = "outline"   -> {"chapters"}
      [] p = "chapters"  -> {"chapters", "document"}
      [] p = "document"  -> {"completed"}
      [] OTHER           -> {}

C19_OrderedStep ==
    run' = run => pc' \in StageSuccessors(pc) \cup {"failed", "exited"}

OnePerChapter ==
    /\ Len(chapterContents) = Len(chapters)
    /\ \A i \in 1..Len(chapters) : chapterContents[i].number = chapters[i].number

C19_OutputsAtHand ==
    /\ pc \in {"ask", "queries"} => questions # <<>>
    /\ pc \in {"queries", "search", "searching"} => answers # <<>>
    /\ pc \in {"search", "searching", "crawl", "crawling"} => queries # <<>>
    /\ pc \in {"chapters", "document", "completed"} => chapters # <<>>
    /\ pc \in {"document", "completed"} => OnePerChapter
    /\ pc = "completed" => document # None
    /\ pc \notin {"completed", "exited"} => document = None
    /\ activeRun = "search-run" => pc \in {"searching", "exited"}
    /\ activeRun = "crawl-run" => pc \in {"crawling", "exited"}
    /\ pc \in {"searching", "crawling"} => activeRun # "none"

C19_StageOrder ==
    /\ []C19_OutputsAtHand
    /\ [][C19_OrderedStep]_vars

\* a run of two chapters went through every stage, crawl included
C19_Witness ==
    /\ pc = "completed"
    /\ Len(chapters) = 2
    /\ Len(chapterContents) = 2
    /\ lastRunId = "crawl-run"
    /\ contents # <<>>

(***************************************************************************)
(* C20: the bibliography of an assembled report has one entry per URL      *)
(* cited in the chapters, in the order of their first citation: entry k    *)
(* carries index k, the URL first cited k-th (the ledger's k-th) and the   *)
(* title of that URL's document; a document nobody cited is not listed.    *)
(***************************************************************************)
\* the URLs of the markers of the chapters, in the order they were written
CitedInRun ==
    LET marks == Flatten([i \in 1..Len(chapterContents) |->
                             Markers(chapterContents[i].content)])
    IN  [j \in 1..Len(marks) |-> marks[j].u]

C20_Bibliography ==
    pc = "completed" =>
        LET bib == document.orderedReferences
            order == AppendNew(<<>>, CitedInRun)
        IN  /\ Len(bib) = Len(order)
            /\ order = usedReferences
            /\ \A k \in 1..Len(bib) :
                  /\ bib[k].index = k
                  /\ bib[k].url = order[k]
                  /\ \E d \in Range(contents) :
                        d.url = bib[k].url /\ bib[k].title = TitleOr(d, d.url)

\* the second document was cited first, then the first: the bibliography lists
\* them in that order
C20_Witness ==
    /\ pc = "completed"
    /\ Len(contents) = 2
    /\ contents[1].url # contents[2].url
    /\ Len(document.orderedReferences) = 2
    /\ document.orderedReferences[1].url = contents[2].url
    /\ document.orderedReferences[2].url = contents[1].url

(***************************************************************************)
(* C21: the search stage starts one actor run, whose input holds every     *)
(* query, and returns the URLs of the run's results without duplicates:    *)
(* every URL of the results once, and no other.                            *)
(***************************************************************************)
C21_Batched ==
    pc \in {"searching", "crawl"} =>
        /\ queries # <<>>
        /\ \A i \in 1..Len(queries) : Contains(searchInput, queries[i])

C21_Deduplicated ==
    pc = "crawl" =>
        /\ NoDup(urls)
        /\ Range(urls) = Range(results)

C21_OneCall ==
    (activeRun' = "search-run" /\ activeRun # "search-run") =>
        /\ pc = "search"
        /\ lastRunId = "null"

C21_SearchDedupe ==
    /\ [](C21_Batched /\ C21_Deduplicated)
    /\ [][C21_OneCall]_vars

\* the results named one URL twice and the stage returned it once
C21_Witness ==
    /\ pc = "crawl"
    /\ Len(results) = 2
    /\ results[1] = results[2]
    /\ Len(urls) = 1
    /\ Len(queries) = 2

(***************************************************************************)
(* C22: when assembly starts, the references Map has a title for every URL *)
(* of the ledger, so that building the bibliography does not throw.        *)
(***************************************************************************)
C22_TitlesPresent ==
    pc = "document" =>
        \A u \in Range(usedReferences) :
            u \in DOMAIN references /\ references[u].title # <<>>

(***************************************************************************)
(* C23: the corpus the crawl stage returns holds at most one document per  *)
(* normalized URL.                                                         *)
(***************************************************************************)
C23_OnePerNormalizedUrl ==
    \A i, j \in 1..Len(contents) :
        Normalized(contents[i].url) = Normalized(contents[j].url) => i = j

(***************************************************************************)
(* C24: within a run the ledger changes only in the step that completes a  *)
(* chapter-body call: every other step, a chapter-body call that fails     *)
(* among them, leaves it as it was.                                        *)
(***************************************************************************)
C24_OnlyChapterBodies ==
    [][(run' = run /\ usedReferences' # usedReferences) =>
          /\ pc = "chapters"
          /\ pc' = "chapters"
          /\ Len(chapterContents') = Len(chapterContents) + 1]_vars

\* the second chapter-body call failed and the ledger of the first is still there
C24_Witness ==
    /\ usedReferences # <<>>
    /\ pc = "failed"
    /\ Len(chapterContents) = 1
    /\ Len(chapters) = 2

(***************************************************************************)
(* C25: lastRunId never names an actor run that has finished: when it      *)
(* names a run, that run is in flight, and a SIGINT handler that ran while *)
(* no actor run was in flight asked for no abort.                          *)
(***************************************************************************)
C25_NeverFinishedRun ==
    /\ lastRunId # "null" => lastRunId = activeRun
    /\ (pc = "exited" /\ activeRun = "none") => aborted = "none"

====
